---- MODULE Spec2Model ----
(***************************************************************************)
(* Model of the ownership primitives of the lock-free repository:          *)
(*   src/src/cell.rs     Cell<T>                                           *)
(*   src/src/rc.rs       Rc<T> over a heap-allocated RcInner<T>            *)
(*   src/src/refcell.rs  RefCell<T>, RefGuard, MutRefGuard                 *)
(* Spec   : one RefCell, its guards and the values read/written through    *)
(*          them.                                                          *)
(* SpecRc : a heap of RcInner allocations and the Rc handles on them.      *)
(***************************************************************************)
EXTENDS Integers, FiniteSets, Sequences, TLC

VARIABLES
    refcell,        \* RefCell<T>: [value, state: Cell<RefState>]
    refGuards,      \* number of live RefGuard values (wide natural)
    mutGuards,      \* number of live MutRefGuard values
    overflowChecks, \* build profile: TRUE = arithmetic overflow panics
    written,        \* [val, by]: the value given to RefCell::new or last stored
                    \* through a MutRefGuard, and which of the two it was
    last,           \* the last RefCell/guard operation and its result
    calls,          \* number of RefCell/guard operations performed
    denied,         \* the last request that was denied: "none", "borrow", "borrow_mut"
    heap,           \* address -> RcInner<T> slot
    handles,        \* address -> number of live Rc handles with that inner
    frees,          \* address -> number of times the Box was dropped
    block,          \* address -> the memory block the allocator gave it, 0 = none
    rcLast,         \* the last Rc operation and its result
    cell,           \* a Cell<T>
    cellExpect,     \* the argument of the last Cell::set (or of Cell::new)
    copied,         \* the values Cell::get has returned, held by the caller
    cellLast,       \* the last Cell operation
    tpc,            \* thread -> the Rc operation it is in, and the c it has read
    owned,          \* thread -> number of live Rc handles the thread holds
    hnd,            \* handle -> address of the RcInner<RefCell<T>>, 0 = not live
    hShared,        \* handle -> number of live RefGuards borrowed through it
    hMut,           \* handle -> number of live MutRefGuards borrowed through it
    hWritten        \* address -> [val, by]: the value last stored in the RefCell of
                    \* the allocation and the handle it was stored through (0 = new)

refVars == <<refcell, refGuards, mutGuards, overflowChecks, written, last, calls,
             denied>>
rcVars  == <<heap, handles, frees, block, rcLast>>
cellVars == <<cell, cellExpect, copied, cellLast>>
thrVars == <<tpc, owned>>
compVars == <<hnd, hShared, hMut, hWritten>>
vars    == <<refcell, refGuards, mutGuards, overflowChecks, written, last, calls,
             denied, heap, handles, frees, block, rcLast, cell, cellExpect, copied,
             cellLast, tpc, owned, hnd, hShared, hMut, hWritten>>

(***************************************************************************)
(* Bounds of the model.                                                    *)
(***************************************************************************)
MaxValue == 2
MaxCalls == 7
SeedSlack == 1
MaxAllocs == 2
MaxHandles == 3
MaxCopies == 3
MaxGuards == 2
MaxCount == 5
MaxFrees == 2
MaxCompCalls == 7
MaxCompAllocs == 1

Values == 0..MaxValue

(***************************************************************************)
(* i32, the type of the shared-borrow counter (RefState::Shared(i32)).     *)
(* `shared + 1` / `shared - 1` panic on overflow in a build with overflow  *)
(* checks and wrap around in two's complement in a build without them.     *)
(***************************************************************************)
I32Max == 2147483647
I32Min == -I32Max - 1

I32AddOne(n, checks) ==
    IF n = I32Max
    THEN IF checks THEN [panic |-> TRUE, v |-> n] ELSE [panic |-> FALSE, v |-> I32Min]
    ELSE [panic |-> FALSE, v |-> n + 1]

I32SubOne(n, checks) ==
    IF n = I32Min
    THEN IF checks THEN [panic |-> TRUE, v |-> n] ELSE [panic |-> FALSE, v |-> I32Max]
    ELSE [panic |-> FALSE, v |-> n - 1]

(***************************************************************************)
(* Cell<T> (cell.rs).                                                      *)
(***************************************************************************)
Cell_new(value) == [value |-> value]

\* Mutant: the store into the slot is lost.
Cell_set_NoStore(self, new_value) == self

Cell_set(self, new_value) == [self EXCEPT !.value = new_value]

Cell_get(self) == self.value

(***************************************************************************)
(* enum RefState (refcell.rs).                                             *)
(***************************************************************************)
Unshared == [tag |-> "Unshared"]

Shared(n) == [tag |-> "Shared", n |-> n]

Exclusive == [tag |-> "Exclusive"]

(***************************************************************************)
(* RefCell<T> and its guards (refcell.rs).  Each operation is a function   *)
(* of the RefCell it acts on; `ret` is what the caller gets:               *)
(*   "Some"  a guard was returned        "None"  the borrow was denied     *)
(*   "Panic" an arithmetic overflow panicked                               *)
(*   "Fatal" an unreachable!() branch of a guard's drop was reached.       *)
(***************************************************************************)
RefCell_new(value) == [value |-> value, state |-> Cell_new(Unshared)]

\* Mutant: a shared borrow is also handed out while Exclusive.
RefCell_borrow_IgnoresExclusive(self, checks) ==
    LET s == Cell_get(self.state) IN
    CASE s.tag \in {"Unshared", "Exclusive"} ->
            [refcell |-> [self EXCEPT !.state = Cell_set(self.state, Shared(1))],
             ret |-> "Some"]
      [] s.tag = "Shared" ->
            LET sum == I32AddOne(s.n, checks) IN
            IF sum.panic
            THEN [refcell |-> self, ret |-> "Panic"]
            ELSE [refcell |-> [self EXCEPT !.state = Cell_set(self.state, Shared(sum.v))],
                  ret |-> "Some"]

RefCell_borrow(self, checks) ==
    LET s == Cell_get(self.state) IN
    CASE s.tag = "Unshared" ->
            [refcell |-> [self EXCEPT !.state = Cell_set(self.state, Shared(1))],
             ret |-> "Some"]
      [] s.tag = "Shared" ->
            LET sum == I32AddOne(s.n, checks) IN
            IF sum.panic
            THEN [refcell |-> self, ret |-> "Panic"]
            ELSE [refcell |-> [self EXCEPT !.state = Cell_set(self.state, Shared(sum.v))],
                  ret |-> "Some"]
      [] s.tag = "Exclusive" ->
            [refcell |-> self, ret |-> "None"]

\* Mutant: only Exclusive denies an exclusive borrow.
RefCell_borrow_mut_IgnoresShared(self) ==
    LET s == Cell_get(self.state) IN
    IF s.tag # "Exclusive"
    THEN [refcell |-> [self EXCEPT !.state = Cell_set(self.state, Exclusive)],
          ret |-> "Some"]
    ELSE [refcell |-> self, ret |-> "None"]

\* Mutant: the guard is handed out without recording Exclusive.
RefCell_borrow_mut_NoSet(self) ==
    LET s == Cell_get(self.state) IN
    IF s.tag = "Unshared"
    THEN [refcell |-> self, ret |-> "Some"]
    ELSE [refcell |-> self, ret |-> "None"]

RefCell_borrow_mut(self) ==
    LET s == Cell_get(self.state) IN
    IF s.tag = "Unshared"
    THEN [refcell |-> [self EXCEPT !.state = Cell_set(self.state, Exclusive)],
          ret |-> "Some"]
    ELSE [refcell |-> self, ret |-> "None"]

\* Mutant: the Shared(1) arm is missing, the last release stores Shared(0).
RefGuard_drop_NoLastArm(self, checks) ==
    LET s == Cell_get(self.state) IN
    CASE s.tag \in {"Exclusive", "Unshared"} ->
            [refcell |-> self, ret |-> "Fatal"]
      [] s.tag = "Shared" ->
            LET diff == I32SubOne(s.n, checks) IN
            IF diff.panic
            THEN [refcell |-> self, ret |-> "Panic"]
            ELSE [refcell |-> [self EXCEPT !.state = Cell_set(self.state, Shared(diff.v))],
                  ret |-> "Ok"]

RefGuard_drop(self, checks) ==
    LET s == Cell_get(self.state) IN
    CASE s.tag \in {"Exclusive", "Unshared"} ->
            [refcell |-> self, ret |-> "Fatal"]
      [] s.tag = "Shared" /\ s.n = 1 ->
            [refcell |-> [self EXCEPT !.state = Cell_set(self.state, Unshared)],
             ret |-> "Ok"]
      [] s.tag = "Shared" /\ s.n # 1 ->
            LET diff == I32SubOne(s.n, checks) IN
            IF diff.panic
            THEN [refcell |-> self, ret |-> "Panic"]
            ELSE [refcell |-> [self EXCEPT !.state = Cell_set(self.state, Shared(diff.v))],
                  ret |-> "Ok"]

\* RefGuard { refcell: value }: a guard on the RefCell, which it leaves as it is.
RefGuard_new(value) == [refcell |-> value]

RefGuard_deref(self) == self.value

\* Mutant: the release of the exclusive guard does not reset the state.
MutRefGuard_drop_NoReset(self) == [refcell |-> self, ret |-> "Ok"]

MutRefGuard_drop(self) ==
    LET s == Cell_get(self.state) IN
    IF s.tag = "Exclusive"
    THEN [refcell |-> [self EXCEPT !.state = Cell_set(self.state, Unshared)],
          ret |-> "Ok"]
    ELSE [refcell |-> self, ret |-> "Fatal"]

\* MutRefGuard { refcell: value }: a guard on the RefCell, which it leaves as it is.
MutRefGuard_new(value) == [refcell |-> value]

MutRefGuard_deref(self) == self.value

\* Mutant: the store through the exclusive guard is lost.
MutRefGuard_deref_mut_NoStore(self, w) == self

\* `*guard = w`: deref_mut hands out &mut T on the slot, the caller stores w.
MutRefGuard_deref_mut(self, w) == [self EXCEPT !.value = w]

(***************************************************************************)
(* The number of live guards is a natural number that can exceed the range *)
(* of i32: it is kept in base 2^31 as hi * 2^31 + lo with 0 <= lo < 2^31.  *)
(***************************************************************************)
Wide(hi, lo) == [hi |-> hi, lo |-> lo]

WideInc(w) == IF w.lo = I32Max THEN Wide(w.hi + 1, 0) ELSE Wide(w.hi, w.lo + 1)

WideDec(w) == IF w.lo = 0 THEN Wide(w.hi - 1, I32Max) ELSE Wide(w.hi, w.lo - 1)

WideIsZero(w) == w.hi = 0 /\ w.lo = 0

\* The wide natural w equals the integer n.
WideIs(w, n) == w.hi = 0 /\ w.lo = n

(***************************************************************************)
(* The state machine of one RefCell.                                       *)
(***************************************************************************)
State == Cell_get(refcell.state)

\* RefCell::new(v): no guard exists.
Fresh(v, checks) ==
    /\ refcell = RefCell_new(v)
    /\ refGuards = Wide(0, 0)
    /\ mutGuards = 0
    /\ overflowChecks = checks
    /\ written = [val |-> v, by |-> "new"]
    /\ last = [op |-> "new", ret |-> "Ok"]
    /\ calls = 0
    /\ denied = "none"

\* RefCell::new(v) followed by k = 2^31 - 1 - d successful borrow() calls whose
\* guards are all held: the states near the top of the counter's range, which
\* TLC cannot count up to from Fresh.
Borrowed(v, checks, d) ==
    /\ refcell = [value |-> v, state |-> Cell_new(Shared(I32Max - d))]
    /\ refGuards = Wide(0, I32Max - d)
    /\ mutGuards = 0
    /\ overflowChecks = checks
    /\ written = [val |-> v, by |-> "new"]
    /\ last = [op |-> "borrow", ret |-> "Some"]
    /\ calls = 0
    /\ denied = "none"

\* RefCell::new(v) followed by k = 2^32 - 1 - d successful borrow() calls whose
\* guards are all held (or leaked), in a build without overflow checks: the
\* counter has wrapped once, through Shared(-2^31), and reads Shared(-1 - d).
WrappedBorrowed(v, d) ==
    /\ refcell = [value |-> v, state |-> Cell_new(Shared(-1 - d))]
    /\ refGuards = Wide(1, I32Max - d)
    /\ mutGuards = 0
    /\ overflowChecks = FALSE
    /\ written = [val |-> v, by |-> "new"]
    /\ last = [op |-> "borrow", ret |-> "Some"]
    /\ calls = 0
    /\ denied = "none"

RefCellInit ==
    \E v \in Values, checks \in BOOLEAN :
        \/ Fresh(v, checks)
        \/ \E d \in 0..SeedSlack : Borrowed(v, checks, d)

Step == calls < MaxCalls /\ calls' = calls + 1

borrow ==
    /\ Step
    /\ LET r == RefCell_borrow(refcell, overflowChecks) IN
        /\ refcell' = r.refcell
        /\ refGuards' = IF r.ret = "Some" THEN WideInc(refGuards) ELSE refGuards
        /\ last' = [op |-> "borrow", ret |-> r.ret]
        /\ denied' = IF r.ret = "None" THEN "borrow" ELSE denied
    /\ UNCHANGED <<mutGuards, overflowChecks, written>>

borrow_mut ==
    /\ Step
    /\ LET r == RefCell_borrow_mut(refcell) IN
        /\ refcell' = r.refcell
        /\ mutGuards' = IF r.ret = "Some" THEN mutGuards + 1 ELSE mutGuards
        /\ last' = [op |-> "borrow_mut", ret |-> r.ret]
        /\ denied' = IF r.ret = "None" THEN "borrow_mut" ELSE denied
    /\ UNCHANGED <<refGuards, overflowChecks, written>>

\* A live RefGuard goes out of scope.
DropRefGuard ==
    /\ Step
    /\ ~WideIsZero(refGuards)
    /\ LET r == RefGuard_drop(refcell, overflowChecks) IN
        /\ refcell' = r.refcell
        /\ last' = [op |-> "drop_ref", ret |-> r.ret]
    /\ refGuards' = WideDec(refGuards)
    /\ UNCHANGED <<mutGuards, overflowChecks, written, denied>>

\* A live MutRefGuard goes out of scope.
DropMutRefGuard ==
    /\ Step
    /\ mutGuards > 0
    /\ LET r == MutRefGuard_drop(refcell) IN
        /\ refcell' = r.refcell
        /\ last' = [op |-> "drop_mut", ret |-> r.ret]
    /\ mutGuards' = mutGuards - 1
    /\ UNCHANGED <<refGuards, overflowChecks, written, denied>>

\* `*guard` on a live RefGuard.
ReadShared ==
    /\ Step
    /\ ~WideIsZero(refGuards)
    /\ last' = [op |-> "deref", ret |-> "Ref", val |-> RefGuard_deref(refcell)]
    /\ UNCHANGED <<refcell, refGuards, mutGuards, overflowChecks, written, denied>>

\* `*guard` on a live MutRefGuard.
ReadExclusive ==
    /\ Step
    /\ mutGuards > 0
    /\ last' = [op |-> "deref_excl", ret |-> "Ref", val |-> MutRefGuard_deref(refcell)]
    /\ UNCHANGED <<refcell, refGuards, mutGuards, overflowChecks, written, denied>>

\* `*guard = w` on a live MutRefGuard.
WriteExclusive ==
    /\ Step
    /\ mutGuards > 0
    /\ \E w \in Values :
        /\ refcell' = MutRefGuard_deref_mut(refcell, w)
        /\ written' = [val |-> w, by |-> "deref_mut"]
        /\ last' = [op |-> "deref_mut", ret |-> "RefMut", val |-> w]
    /\ UNCHANGED <<refGuards, mutGuards, overflowChecks, denied>>

\* RefGuard::new(&cell), called by any code that can name the type.
RefGuardNew ==
    /\ Step
    /\ refcell' = RefGuard_new(refcell).refcell
    /\ refGuards' = WideInc(refGuards)
    /\ last' = [op |-> "RefGuard::new", ret |-> "Guard"]
    /\ UNCHANGED <<mutGuards, overflowChecks, written, denied>>

\* MutRefGuard::new(&cell), called by any code that can name the type.
MutRefGuardNew ==
    /\ Step
    /\ refcell' = MutRefGuard_new(refcell).refcell
    /\ mutGuards' = mutGuards + 1
    /\ last' = [op |-> "MutRefGuard::new", ret |-> "Guard"]
    /\ UNCHANGED <<refGuards, overflowChecks, written, denied>>

(***************************************************************************)
(* u64, the type of the reference count (RcInner::refcount: Cell<u64>).    *)
(* A u64 is kept in three limbs, hi * 2^62 + mid * 2^31 + lo, with         *)
(* 0 <= lo, mid < 2^31 and 0 <= hi <= 3.  `c + 1` / `c - 1` panic on       *)
(* overflow in a build with overflow checks and wrap around without them.  *)
(***************************************************************************)
U64TopLimb == 3
LimbMax == I32Max

U64(n) == [hi |-> 0, mid |-> 0, lo |-> n]

U64Max == [hi |-> U64TopLimb, mid |-> LimbMax, lo |-> LimbMax]

U64Less(x, y) ==
    \/ x.hi < y.hi
    \/ x.hi = y.hi /\ x.mid < y.mid
    \/ x.hi = y.hi /\ x.mid = y.mid /\ x.lo < y.lo

U64AddOne(c, checks) ==
    IF c = U64Max
    THEN IF checks THEN [panic |-> TRUE, v |-> c] ELSE [panic |-> FALSE, v |-> U64(0)]
    ELSE [panic |-> FALSE,
          v |-> IF c.lo < LimbMax THEN [c EXCEPT !.lo = c.lo + 1]
                ELSE IF c.mid < LimbMax THEN [hi |-> c.hi, mid |-> c.mid + 1, lo |-> 0]
                ELSE [hi |-> c.hi + 1, mid |-> 0, lo |-> 0]]

U64SubOne(c, checks) ==
    IF c = U64(0)
    THEN IF checks THEN [panic |-> TRUE, v |-> c] ELSE [panic |-> FALSE, v |-> U64Max]
    ELSE [panic |-> FALSE,
          v |-> IF c.lo > 0 THEN [c EXCEPT !.lo = c.lo - 1]
                ELSE IF c.mid > 0 THEN [hi |-> c.hi, mid |-> c.mid - 1, lo |-> LimbMax]
                ELSE [hi |-> c.hi - 1, mid |-> LimbMax, lo |-> LimbMax]]

(***************************************************************************)
(* Rc<T> (rc.rs).  The heap maps an address to what Box holds there:       *)
(* nothing yet, a live RcInner [value, refcount: Cell<u64>], or freed      *)
(* memory.  An Rc handle is the address in its `inner` field.  `ret` is    *)
(* "Ok", or "Panic" when the count's arithmetic overflowed in a build with *)
(* overflow checks.                                                        *)
(***************************************************************************)
Addrs == 1..MaxAllocs

Unallocated == [status |-> "unallocated"]

Freed == [status |-> "freed"]

RcInner(value, refcount) ==
    [status |-> "live", value |-> value, refcount |-> refcount]

\* Box::new picks an address that holds nothing.
Rc_new(h, a, v) == [h EXCEPT ![a] = RcInner(v, Cell_new(U64(1)))]

\* Mutant: deref hands out a RefCell of its own, with a borrow state of its own.
Rc_deref_Copy(h, a) == RefCell_new(h[a].value.value)

Rc_deref(h, a) == h[a].value

\* let c = (*self.inner).refcount.get()
Rc_refcount_get(h, a) == Cell_get(h[a].refcount)

\* Mutant: the count is updated from its current value, as an atomic
\* fetch-and-add would, instead of from the c that was read.
Rc_clone_set_FromCurrent(h, a, c, checks) ==
    LET sum == U64AddOne(Cell_get(h[a].refcount), checks) IN
    IF sum.panic
    THEN [heap |-> h, ret |-> "Panic"]
    ELSE [heap |-> [h EXCEPT ![a].refcount = Cell_set(h[a].refcount, sum.v)],
          ret |-> "Ok"]

\* (*self.inner).refcount.set(c + 1)
Rc_clone_set(h, a, c, checks) ==
    LET sum == U64AddOne(c, checks) IN
    IF sum.panic
    THEN [heap |-> h, ret |-> "Panic"]
    ELSE [heap |-> [h EXCEPT ![a].refcount = Cell_set(h[a].refcount, sum.v)],
          ret |-> "Ok"]

\* Rc { inner: self.inner }: the address the new handle points at.
Rc_clone_inner(a) == a

\* Mutant: clone hands out a handle without counting it.
Rc_clone_NoIncrement(h, a, checks) == [heap |-> h, ret |-> "Ok"]

Rc_clone(h, a, checks) == Rc_clone_set(h, a, Rc_refcount_get(h, a), checks)

\* The branches of drop after c has been read.
Rc_drop_finish(h, a, c, checks) ==
    IF c = U64(1)
    THEN [heap |-> [h EXCEPT ![a] = Freed], freed |-> TRUE, ret |-> "Ok"]
    ELSE LET diff == U64SubOne(c, checks) IN
         IF diff.panic
         THEN [heap |-> h, freed |-> FALSE, ret |-> "Panic"]
         ELSE [heap |-> [h EXCEPT ![a].refcount = Cell_set(h[a].refcount, diff.v)],
               freed |-> FALSE, ret |-> "Ok"]

\* Mutant: the Box is dropped one handle too early.
Rc_drop_FreesAtTwo(h, a, checks) ==
    LET c == Rc_refcount_get(h, a) IN
    IF c = U64(1) \/ c = U64(2)
    THEN [heap |-> [h EXCEPT ![a] = Freed], freed |-> TRUE, ret |-> "Ok"]
    ELSE Rc_drop_finish(h, a, c, checks)

\* Mutant: a drop that is not the last one leaves the count as it is.
Rc_drop_NoDecrement(h, a, checks) ==
    LET c == Rc_refcount_get(h, a) IN
    IF c = U64(1)
    THEN [heap |-> [h EXCEPT ![a] = Freed], freed |-> TRUE, ret |-> "Ok"]
    ELSE [heap |-> h, freed |-> FALSE, ret |-> "Ok"]

Rc_drop(h, a, checks) == Rc_drop_finish(h, a, Rc_refcount_get(h, a), checks)

RcInit ==
    /\ heap = [a \in Addrs |-> Unallocated]
    /\ handles = [a \in Addrs |-> 0]
    /\ frees = [a \in Addrs |-> 0]
    /\ block = [a \in Addrs |-> 0]
    /\ rcLast = [op |-> "none", ret |-> "Ok"]

\* Box::new: the allocator gives allocation a fresh memory (block a) or the
\* block of a released allocation that no live allocation occupies.
Box_new(a, blk) ==
    /\ \A b \in Addrs : heap[b].status = "live" => block[b] # blk
    /\ blk = a \/ \E f \in Addrs : heap[f] = Freed /\ block[f] = blk

\* let rc = Rc::new(v)
RcNew ==
    \E a \in Addrs, v \in Values, blk \in Addrs :
        /\ heap[a] = Unallocated
        /\ \A b \in Addrs : b < a => heap[b] # Unallocated
        /\ Box_new(a, blk)
        /\ heap' = Rc_new(heap, a, v)
        /\ block' = [block EXCEPT ![a] = blk]
        /\ handles' = [handles EXCEPT ![a] = 1]
        /\ rcLast' = [op |-> "new", ret |-> "Ok", addr |-> a]
        /\ UNCHANGED frees

\* A handle whose inner points at freed memory is dangling: clone and drop
\* still read and write the refcount word through the raw pointer.
Dangling(a) == heap[a].status # "live"

\* The live allocations that now occupy the block a dangling handle of
\* allocation a points into (at most one).
Occupant(a) == {b \in Addrs : b # a /\ heap[b].status = "live" /\ block[b] = block[a]}

\* The word read at the refcount offset of a freed block that has not been
\* given out again is the old count or allocator data: any u64.  One value
\* stands for each way clone and drop go on from it: 0 (c - 1 overflows),
\* 1 (the Box is dropped), 2 (no overflow), u64::MAX (c + 1 overflows).
FreedWord == {U64(0), U64(1), U64(2), U64Max}

\* clone after reading w from a freed block: the write of w + 1 lands in
\* freed memory.
Rc_clone_freed(w, checks) ==
    IF U64AddOne(w, checks).panic THEN "Panic" ELSE "UseAfterFree"

\* drop after reading w from a freed block: w == 1 runs Box::from_raw on the
\* block again, any other w writes w - 1 into freed memory.
Rc_drop_freed(w, checks) ==
    IF w = U64(1)
    THEN [freed |-> TRUE, ret |-> "UseAfterFree"]
    ELSE [freed |-> FALSE,
          ret |-> IF U64SubOne(w, checks).panic THEN "Panic" ELSE "UseAfterFree"]

\* rc.clone() on a handle of allocation a
RcClone ==
    \E a \in Addrs :
        /\ handles[a] > 0
        /\ handles[a] < MaxHandles
        /\ CASE ~Dangling(a) ->
                LET r == Rc_clone(heap, a, overflowChecks) IN
                /\ heap' = r.heap
                /\ rcLast' = [op |-> "clone", ret |-> r.ret, addr |-> a]
                /\ handles' = IF r.ret = "Ok"
                              THEN [handles EXCEPT ![Rc_clone_inner(a)] = @ + 1]
                              ELSE handles
             [] Dangling(a) /\ Occupant(a) # {} ->
                \E b \in Occupant(a) :
                    LET r == Rc_clone(heap, b, overflowChecks) IN
                    /\ heap' = r.heap
                    /\ rcLast' = [op |-> "clone",
                                  ret |-> IF r.ret = "Ok" THEN "UseAfterFree" ELSE r.ret,
                                  addr |-> a]
                    /\ handles' = IF r.ret = "Ok"
                                  THEN [handles EXCEPT ![Rc_clone_inner(a)] = @ + 1]
                                  ELSE handles
             [] Dangling(a) /\ Occupant(a) = {} ->
                \E w \in FreedWord :
                    LET ret == Rc_clone_freed(w, overflowChecks) IN
                    /\ rcLast' = [op |-> "clone", ret |-> ret, addr |-> a]
                    /\ handles' = IF ret = "Panic" THEN handles
                                  ELSE [handles EXCEPT ![Rc_clone_inner(a)] = @ + 1]
                    /\ UNCHANGED heap
        /\ UNCHANGED <<frees, block>>

\* a handle of allocation a goes out of scope
RcDrop ==
    \E a \in Addrs :
        /\ handles[a] > 0
        /\ CASE ~Dangling(a) ->
                LET r == Rc_drop(heap, a, overflowChecks) IN
                /\ heap' = r.heap
                /\ frees' = [frees EXCEPT ![a] = IF r.freed THEN @ + 1 ELSE @]
                /\ rcLast' = [op |-> "drop", ret |-> r.ret, addr |-> a]
             [] Dangling(a) /\ Occupant(a) # {} ->
                \E b \in Occupant(a) :
                    LET r == Rc_drop(heap, b, overflowChecks) IN
                    /\ heap' = r.heap
                    /\ frees' = [frees EXCEPT ![b] = IF r.freed THEN @ + 1 ELSE @]
                    /\ rcLast' = [op |-> "drop",
                                  ret |-> IF r.ret = "Ok" THEN "UseAfterFree" ELSE r.ret,
                                  addr |-> a]
             [] Dangling(a) /\ Occupant(a) = {} ->
                \E w \in FreedWord :
                    LET r == Rc_drop_freed(w, overflowChecks) IN
                    /\ r.freed => frees[a] < MaxFrees
                    /\ frees' = [frees EXCEPT ![a] = IF r.freed THEN @ + 1 ELSE @]
                    /\ rcLast' = [op |-> "drop", ret |-> r.ret, addr |-> a]
                    /\ UNCHANGED heap
        /\ handles' = [handles EXCEPT ![a] = @ - 1]
        /\ UNCHANGED block

\* *rc on a handle of allocation a
RcDeref ==
    \E a \in Addrs :
        /\ handles[a] > 0
        /\ IF Dangling(a)
           THEN rcLast' = [op |-> "deref", ret |-> "UseAfterFree", addr |-> a]
           ELSE rcLast' = [op |-> "deref", ret |-> "Ref", addr |-> a,
                           val |-> Rc_deref(heap, a)]
        /\ UNCHANGED <<heap, handles, frees, block>>

(***************************************************************************)
(* The parts of the state a specification leaves alone.                    *)
(***************************************************************************)
Threads == 1..2

Handles == 1..MaxHandles

CellIdle ==
    /\ cell = Cell_new(0)
    /\ cellExpect = 0
    /\ copied = <<>>
    /\ cellLast = [op |-> "new"]

ThreadsIdle ==
    /\ tpc = [t \in Threads |-> [op |-> "idle"]]
    /\ owned = [t \in Threads |-> 0]

CompIdle ==
    /\ hnd = [i \in Handles |-> 0]
    /\ hShared = [i \in Handles |-> 0]
    /\ hMut = [i \in Handles |-> 0]
    /\ hWritten = [a \in Addrs |-> [val |-> 0, by |-> 0]]

(***************************************************************************)
(* One Cell<T> and its single owner (cell.rs).                             *)
(***************************************************************************)
CellInit ==
    \E v \in Values :
        /\ cell = Cell_new(v)
        /\ cellExpect = v
        /\ copied = <<>>
        /\ cellLast = [op |-> "new", arg |-> v]

\* cell.set(x)
CellSet ==
    \E x \in Values :
        /\ cell' = Cell_set(cell, x)
        /\ cellExpect' = x
        /\ cellLast' = [op |-> "set", arg |-> x]
        /\ UNCHANGED copied

\* let y = cell.get()
CellGet ==
    /\ Len(copied) < MaxCopies
    /\ copied' = Append(copied, Cell_get(cell))
    /\ cellLast' = [op |-> "get"]
    /\ UNCHANGED <<cell, cellExpect>>

OnlyCell == UNCHANGED <<refVars, rcVars, thrVars, compVars>>

InitCell == Fresh(0, TRUE) /\ RcInit /\ CellInit /\ ThreadsIdle /\ CompIdle

NextCell ==
    \/ CellSet /\ OnlyCell
    \/ CellGet /\ OnlyCell

SpecCell == InitCell /\ [][NextCell]_vars

OnlyRefCell == UNCHANGED <<rcVars, cellVars, thrVars, compVars>>

OnlyRc == UNCHANGED <<refVars, cellVars, thrVars, compVars>>

Init == RefCellInit /\ RcInit /\ CellIdle /\ ThreadsIdle /\ CompIdle

Next ==
    \/ borrow /\ OnlyRefCell
    \/ borrow_mut /\ OnlyRefCell
    \/ DropRefGuard /\ OnlyRefCell
    \/ DropMutRefGuard /\ OnlyRefCell
    \/ ReadShared /\ OnlyRefCell
    \/ ReadExclusive /\ OnlyRefCell
    \/ WriteExclusive /\ OnlyRefCell

Spec == Init /\ [][Next]_vars

\* The RefCell operations from the states in which the counter has wrapped.
InitWrapped ==
    /\ \E v \in Values, d \in 0..SeedSlack : WrappedBorrowed(v, d)
    /\ RcInit /\ CellIdle /\ ThreadsIdle /\ CompIdle

SpecWrapped == InitWrapped /\ [][Next]_vars

\* The Rc heap on its own, beside a new RefCell that is left alone.
InitRc == Fresh(0, TRUE) /\ RcInit /\ CellIdle /\ ThreadsIdle /\ CompIdle

NextRc ==
    \/ RcNew /\ OnlyRc
    \/ RcClone /\ OnlyRc
    \/ RcDrop /\ OnlyRc
    \/ RcDeref /\ OnlyRc

SpecRc == InitRc /\ [][NextRc]_vars

\* A new RefCell whose guards come from borrow(), borrow_mut() and from the
\* guards' public constructors.
InitNew ==
    /\ \E v \in Values, checks \in BOOLEAN : Fresh(v, checks)
    /\ RcInit /\ CellIdle /\ ThreadsIdle /\ CompIdle

NextNew ==
    \/ borrow /\ OnlyRefCell
    \/ borrow_mut /\ OnlyRefCell
    \/ RefGuardNew /\ OnlyRefCell
    \/ MutRefGuardNew /\ OnlyRefCell
    \/ DropRefGuard /\ OnlyRefCell
    \/ DropMutRefGuard /\ OnlyRefCell
    \/ ReadShared /\ OnlyRefCell
    \/ ReadExclusive /\ OnlyRefCell
    \/ WriteExclusive /\ OnlyRefCell

SpecNew == InitNew /\ [][NextNew]_vars

\* Rc::new(v) followed by 2^64 - 2 - d clones whose handles were leaked
\* (std::mem::forget) rather than dropped: one live handle, and a count of
\* u64::MAX - d.
RcCountNearMax(v, d) ==
    /\ heap = [a \in Addrs |->
                IF a = 1
                THEN RcInner(v, Cell_new([hi |-> U64TopLimb, mid |-> LimbMax,
                                          lo |-> LimbMax - d]))
                ELSE Unallocated]
    /\ handles = [a \in Addrs |-> IF a = 1 THEN 1 ELSE 0]
    /\ frees = [a \in Addrs |-> 0]
    /\ block = [a \in Addrs |-> IF a = 1 THEN 1 ELSE 0]
    /\ rcLast = [op |-> "clone", ret |-> "Ok", addr |-> 1]

InitRcMax ==
    /\ \E checks \in BOOLEAN : Fresh(0, checks)
    /\ \E v \in Values, d \in 0..SeedSlack : RcCountNearMax(v, d)
    /\ CellIdle /\ ThreadsIdle /\ CompIdle

SpecRcMax == InitRcMax /\ [][NextRc]_vars

(***************************************************************************)
(* Two threads that hold handles of the allocation at address 1 and run    *)
(* clone and drop on them with no synchronization: the read of c and what  *)
(* follows it are separate steps, and the steps of the threads interleave. *)
(* A thread in clone or drop has read c and not yet written.  Once the Box *)
(* is dropped the handles left dangle: clone and drop go on through the    *)
(* raw pointer, on whatever word the freed block holds.                    *)
(***************************************************************************)
Shared1 == 1

Pending(op) == Cardinality({t \in Threads : tpc[t].op = op})

ThrInit ==
    \E v \in Values :
        /\ heap = [a \in Addrs |->
                    IF a = Shared1 THEN RcInner(v, Cell_new(U64(2))) ELSE Unallocated]
        /\ handles = [a \in Addrs |-> IF a = Shared1 THEN 2 ELSE 0]
        /\ frees = [a \in Addrs |-> 0]
        /\ block = [a \in Addrs |-> IF a = Shared1 THEN Shared1 ELSE 0]
        /\ rcLast = [op |-> "clone", ret |-> "Ok", addr |-> Shared1]
        /\ tpc = [t \in Threads |-> [op |-> "idle"]]
        /\ owned = [t \in Threads |-> 1]

\* What refcount.get() through a handle of allocation a can read: the count
\* while the allocation is live, a word of the freed block once it is released
\* (the threads make no new allocation that could take the block).
ReadWords(a) == IF Dangling(a) THEN FreedWord ELSE {Rc_refcount_get(heap, a)}

\* The runs are followed until the Box has been dropped MaxFrees times and
\* while the stored count is below MaxCount.
ThrBound(c) ==
    IF Dangling(Shared1) THEN frees[Shared1] < MaxFrees ELSE U64Less(c, U64(MaxCount))

\* let c = (*self.inner).refcount.get(), in clone
ThrCloneRead ==
    \E t \in Threads :
        /\ tpc[t].op = "idle" /\ owned[t] > 0
        /\ handles[Shared1] + Pending("clone") < MaxHandles
        /\ \E c \in ReadWords(Shared1) :
            /\ ThrBound(c)
            /\ tpc' = [tpc EXCEPT ![t] = [op |-> "clone", c |-> c]]
        /\ UNCHANGED <<heap, handles, frees, block, rcLast, owned>>

\* (*self.inner).refcount.set(c + 1); Rc { inner: self.inner }
ThrCloneWrite ==
    \E t \in Threads :
        /\ tpc[t].op = "clone"
        /\ LET r == IF Dangling(Shared1)
                    THEN [heap |-> heap, ret |-> Rc_clone_freed(tpc[t].c, overflowChecks)]
                    ELSE Rc_clone_set(heap, Shared1, tpc[t].c, overflowChecks) IN
            /\ heap' = r.heap
            /\ rcLast' = [op |-> "clone", ret |-> r.ret, addr |-> Shared1]
            /\ handles' = IF r.ret # "Panic" THEN [handles EXCEPT ![Shared1] = @ + 1]
                          ELSE handles
            /\ owned' = IF r.ret # "Panic" THEN [owned EXCEPT ![t] = @ + 1] ELSE owned
        /\ tpc' = [tpc EXCEPT ![t] = [op |-> "idle"]]
        /\ UNCHANGED <<frees, block>>

\* let c = unsafe { (*self.inner).refcount.get() }, in drop
ThrDropRead ==
    \E t \in Threads :
        /\ tpc[t].op = "idle" /\ owned[t] > 0
        /\ Dangling(Shared1) => frees[Shared1] < MaxFrees
        /\ \E c \in ReadWords(Shared1) :
            tpc' = [tpc EXCEPT ![t] = [op |-> "drop", c |-> c]]
        /\ UNCHANGED <<heap, handles, frees, block, rcLast, owned>>

\* if c == 1 { Box::from_raw } else { refcount.set(c - 1) }
ThrDropFinish ==
    \E t \in Threads :
        /\ tpc[t].op = "drop"
        /\ LET r == IF Dangling(Shared1)
                    THEN [heap |-> heap] @@ Rc_drop_freed(tpc[t].c, overflowChecks)
                    ELSE Rc_drop_finish(heap, Shared1, tpc[t].c, overflowChecks) IN
            /\ heap' = r.heap
            /\ frees' = [frees EXCEPT ![Shared1] = IF r.freed THEN @ + 1 ELSE @]
            /\ rcLast' = [op |-> "drop", ret |-> r.ret, addr |-> Shared1]
        /\ handles' = [handles EXCEPT ![Shared1] = @ - 1]
        /\ owned' = [owned EXCEPT ![t] = @ - 1]
        /\ tpc' = [tpc EXCEPT ![t] = [op |-> "idle"]]
        /\ UNCHANGED block

OnlyThreads == UNCHANGED <<refVars, cellVars, compVars>>

InitThr == Fresh(0, TRUE) /\ ThrInit /\ CellIdle /\ CompIdle

NextThr ==
    \/ ThrCloneRead /\ OnlyThreads
    \/ ThrCloneWrite /\ OnlyThreads
    \/ ThrDropRead /\ OnlyThreads
    \/ ThrDropFinish /\ OnlyThreads

SpecThr == InitThr /\ [][NextThr]_vars

(***************************************************************************)
(* Rc<RefCell<T>>: handles of allocations whose value is a RefCell.  Every *)
(* RefCell operation through handle i acts on *hnd[i], the RefCell reached *)
(* by Rc::deref, in place.  A guard borrows the handle it was obtained     *)
(* through, so a handle with live guards cannot go out of scope.           *)
(***************************************************************************)
Through(i) == Rc_deref(heap, hnd[i])

Store(i, rc) == [heap EXCEPT ![hnd[i]].value = rc]

\* Handles are named in the order they are created.
NextHandle(i) == hnd[i] = 0 /\ \A k \in Handles : k < i => hnd[k] # 0

\* The live RefGuards of the allocation handle i points at.
SharedOn(i) == {k \in Handles : hnd[k] = hnd[i] /\ hShared[k] > 0}

\* The operations of a run are counted, up to MaxCompCalls.
CompStep == calls < MaxCompCalls /\ calls' = calls + 1

\* let rc = Rc::new(RefCell::new(v))
CompNew ==
    /\ CompStep
    /\ \E i \in Handles, a \in Addrs, v \in Values, blk \in Addrs :
        /\ NextHandle(i)
        /\ a <= MaxCompAllocs
        /\ heap[a] = Unallocated
        /\ \A b \in Addrs : b < a => heap[b] # Unallocated
        /\ Box_new(a, blk)
        /\ block' = [block EXCEPT ![a] = blk]
        /\ heap' = Rc_new(heap, a, RefCell_new(v))
        /\ handles' = [handles EXCEPT ![a] = 1]
        /\ hnd' = [hnd EXCEPT ![i] = a]
        /\ hWritten' = [hWritten EXCEPT ![a] = [val |-> v, by |-> 0]]
        /\ rcLast' = [op |-> "new", ret |-> "Ok", addr |-> a, h |-> i]
        /\ UNCHANGED <<frees, hShared, hMut>>

\* let rc2 = rc.clone()
CompClone ==
    /\ CompStep
    /\ \E i, j \in Handles :
        /\ hnd[i] # 0 /\ NextHandle(j)
        /\ LET r == Rc_clone(heap, hnd[i], overflowChecks) IN
            /\ heap' = r.heap
            /\ rcLast' = [op |-> "clone", ret |-> r.ret, addr |-> hnd[i], h |-> i]
            /\ handles' = IF r.ret = "Ok"
                          THEN [handles EXCEPT ![Rc_clone_inner(hnd[i])] = @ + 1]
                          ELSE handles
            /\ hnd' = IF r.ret = "Ok"
                      THEN [hnd EXCEPT ![j] = Rc_clone_inner(hnd[i])]
                      ELSE hnd
        /\ UNCHANGED <<frees, block, hShared, hMut, hWritten>>

\* a handle with no live guard goes out of scope
CompDrop ==
    /\ CompStep
    /\ \E i \in Handles :
        /\ hnd[i] # 0 /\ hShared[i] = 0 /\ hMut[i] = 0
        /\ LET r == Rc_drop(heap, hnd[i], overflowChecks) IN
            /\ heap' = r.heap
            /\ frees' = [frees EXCEPT ![hnd[i]] = IF r.freed THEN @ + 1 ELSE @]
            /\ rcLast' = [op |-> "drop", ret |-> r.ret, addr |-> hnd[i], h |-> i]
        /\ handles' = [handles EXCEPT ![hnd[i]] = @ - 1]
        /\ hnd' = [hnd EXCEPT ![i] = 0]
        /\ UNCHANGED <<block, hShared, hMut, hWritten>>

\* rc.borrow()
CompBorrow ==
    /\ CompStep
    /\ \E i \in Handles :
        /\ hnd[i] # 0 /\ hShared[i] < MaxGuards /\ Cardinality(SharedOn(i)) < MaxGuards
        /\ LET r == RefCell_borrow(Through(i), overflowChecks) IN
            /\ heap' = Store(i, r.refcell)
            /\ hShared' = IF r.ret = "Some" THEN [hShared EXCEPT ![i] = @ + 1]
                          ELSE hShared
            /\ rcLast' = [op |-> "borrow", ret |-> r.ret, addr |-> hnd[i], h |-> i]
        /\ UNCHANGED <<handles, frees, block, hnd, hMut, hWritten>>

\* rc.borrow_mut()
CompBorrowMut ==
    /\ CompStep
    /\ \E i \in Handles :
        /\ hnd[i] # 0
        /\ LET r == RefCell_borrow_mut(Through(i)) IN
            /\ heap' = Store(i, r.refcell)
            /\ hMut' = IF r.ret = "Some" THEN [hMut EXCEPT ![i] = @ + 1] ELSE hMut
            /\ rcLast' = [op |-> "borrow_mut", ret |-> r.ret, addr |-> hnd[i], h |-> i]
        /\ UNCHANGED <<handles, frees, block, hnd, hShared, hWritten>>

\* a RefGuard borrowed through handle i goes out of scope
CompDropRefGuard ==
    /\ CompStep
    /\ \E i \in Handles :
        /\ hShared[i] > 0
        /\ LET r == RefGuard_drop(Through(i), overflowChecks) IN
            /\ heap' = Store(i, r.refcell)
            /\ rcLast' = [op |-> "drop_ref", ret |-> r.ret, addr |-> hnd[i], h |-> i]
        /\ hShared' = [hShared EXCEPT ![i] = @ - 1]
        /\ UNCHANGED <<handles, frees, block, hnd, hMut, hWritten>>

\* a MutRefGuard borrowed through handle i goes out of scope
CompDropMutRefGuard ==
    /\ CompStep
    /\ \E i \in Handles :
        /\ hMut[i] > 0
        /\ LET r == MutRefGuard_drop(Through(i)) IN
            /\ heap' = Store(i, r.refcell)
            /\ rcLast' = [op |-> "drop_mut", ret |-> r.ret, addr |-> hnd[i], h |-> i]
        /\ hMut' = [hMut EXCEPT ![i] = @ - 1]
        /\ UNCHANGED <<handles, frees, block, hnd, hShared, hWritten>>

\* `*guard = w` on a MutRefGuard borrowed through handle i
CompWrite ==
    /\ CompStep
    /\ \E i \in Handles, w \in Values :
        /\ hMut[i] > 0
        /\ heap' = Store(i, MutRefGuard_deref_mut(Through(i), w))
        /\ hWritten' = [hWritten EXCEPT ![hnd[i]] = [val |-> w, by |-> i]]
        /\ rcLast' = [op |-> "deref_mut", ret |-> "RefMut", addr |-> hnd[i], h |-> i,
                      val |-> w]
        /\ UNCHANGED <<handles, frees, block, hnd, hShared, hMut>>

\* `*guard` on a guard borrowed through handle i
CompRead ==
    /\ CompStep
    /\ \E i \in Handles :
        /\ hShared[i] > 0 \/ hMut[i] > 0
        /\ rcLast' = [op |-> "deref", ret |-> "Ref", addr |-> hnd[i], h |-> i,
                      val |-> IF hShared[i] > 0 THEN RefGuard_deref(Through(i))
                              ELSE MutRefGuard_deref(Through(i))]
        /\ UNCHANGED <<heap, handles, frees, block, hnd, hShared, hMut, hWritten>>

OnlyComp ==
    UNCHANGED <<refcell, refGuards, mutGuards, overflowChecks, written, last, denied,
                cellVars, thrVars>>

InitComp ==
    /\ Fresh(0, TRUE)
    /\ RcInit /\ CellIdle /\ ThreadsIdle /\ CompIdle

NextComp ==
    \/ CompNew /\ OnlyComp
    \/ CompClone /\ OnlyComp
    \/ CompDrop /\ OnlyComp
    \/ CompBorrow /\ OnlyComp
    \/ CompBorrowMut /\ OnlyComp
    \/ CompDropRefGuard /\ OnlyComp
    \/ CompDropMutRefGuard /\ OnlyComp
    \/ CompWrite /\ OnlyComp
    \/ CompRead /\ OnlyComp

SpecComp == InitComp /\ [][NextComp]_vars

(***************************************************************************)
(* Properties of the RefCell state machine.                                *)
(***************************************************************************)
NoGuard == WideIsZero(refGuards) /\ mutGuards = 0

\* C1: the recorded state always matches the live guards: Unshared exactly
\* when no guard is live, Shared(n) exactly when n RefGuards and no
\* MutRefGuard are live, Exclusive exactly when one MutRefGuard and no
\* RefGuard is live; at most one exclusive guard, never beside a shared one.
C1_StateMatchesGuards ==
    /\ (State = Unshared) <=> NoGuard
    /\ State.tag = "Shared" =>
          State.n >= 1 /\ WideIs(refGuards, State.n) /\ mutGuards = 0
    /\ (~WideIsZero(refGuards) /\ mutGuards = 0) => State.tag = "Shared"
    /\ (State = Exclusive) <=> (mutGuards = 1 /\ WideIsZero(refGuards))
    /\ mutGuards <= 1
    /\ ~(mutGuards >= 1 /\ ~WideIsZero(refGuards))

\* C4: borrow_mut() called in Shared(n), n >= 1, or in Exclusive returns None
\* and leaves the state and the stored value unchanged.
C4_BorrowMutDenied ==
    [][(/\ last'.op = "borrow_mut"
        /\ \/ State = Exclusive
           \/ State.tag = "Shared" /\ State.n >= 1)
       => (last'.ret = "None" /\ refcell' = refcell)]_vars

C4_Witness ==
    /\ last = [op |-> "borrow_mut", ret |-> "None"]
    /\ State.tag = "Shared" /\ State.n >= 2

\* C5: borrow() called in Exclusive returns None and leaves the state
\* Exclusive and the stored value unchanged.
C5_BorrowDenied ==
    [][(last'.op = "borrow" /\ State = Exclusive)
       => (last'.ret = "None" /\ State' = Exclusive /\ refcell'.value = refcell.value)]_vars

C5_Witness ==
    /\ last = [op |-> "borrow", ret |-> "None"]
    /\ State = Exclusive
    /\ mutGuards = 1

\* C6: borrow() always succeeds when no exclusive borrow is outstanding: from
\* Unshared it returns a guard and stores Shared(1), from Shared(n), for
\* every n >= 1, it returns a guard and stores Shared(n+1).
C6_BorrowSucceeds ==
    [][(last'.op = "borrow" /\ State # Exclusive)
       => /\ last'.ret = "Some"
          /\ State = Unshared => State' = Shared(1)
          /\ (State.tag = "Shared" /\ State.n >= 1) =>
                /\ State'.tag = "Shared"
                /\ State'.n > State.n
                /\ State'.n - State.n = 1]_vars

\* C7: borrow_mut() called in Unshared returns a guard and stores Exclusive,
\* and Unshared is the only state from which borrow_mut() returns a guard.
C7_BorrowMutGranted ==
    [][last'.op = "borrow_mut"
       => /\ State = Unshared =>
                (last'.ret = "Some" /\ State' = Exclusive /\ mutGuards' = mutGuards + 1)
          /\ last'.ret = "Some" => State = Unshared]_vars

C7_Witness ==
    /\ last = [op |-> "borrow_mut", ret |-> "Some"]
    /\ State = Exclusive
    /\ mutGuards = 1

\* C8: from Shared(k) with the k guards of k successful borrow() calls live,
\* each release of a shared guard lowers the count by exactly one, through
\* Shared(k-1), ..., Shared(1), and Unshared is stored exactly by the release
\* of the last of the guards.
C8_ReleaseCountsDown ==
    [][(/\ last'.op = "drop_ref"
        /\ State.tag = "Shared" /\ State.n >= 1
        /\ WideIs(refGuards, State.n))
       => /\ last'.ret = "Ok"
          /\ WideIs(refGuards', State.n - 1)
          /\ State' = (IF State.n = 1 THEN Unshared ELSE Shared(State.n - 1))
          /\ (State' = Unshared) <=> WideIsZero(refGuards')]_vars

C8_Witness ==
    /\ last = [op |-> "drop_ref", ret |-> "Ok"]
    /\ State = Unshared
    /\ NoGuard
    /\ calls = 6

\* C9: borrow_mut() on a new RefCell succeeds, a value w stored through the
\* exclusive guard is the stored value, releasing the guard stores Unshared,
\* a following borrow() succeeds, and every read through a guard yields the
\* last value written through an exclusive guard (or the value given to new).
C9_WriteThenRead ==
    [][/\ (last'.op = "borrow_mut" /\ State = Unshared) => last'.ret = "Some"
       /\ last'.op = "deref_mut" => (refcell'.value = last'.val /\ State' = State)
       /\ (last'.op = "drop_mut" /\ State = Exclusive) =>
             (State' = Unshared /\ refcell'.value = refcell.value)
       /\ (last'.op = "borrow" /\ State = Unshared) =>
             (last'.ret = "Some" /\ refcell'.value = refcell.value)
       /\ last'.op \in {"deref", "deref_excl"} => last'.val = written.val]_vars

C9_Witness ==
    /\ last.op = "deref"
    /\ written.by = "deref_mut"
    /\ last.val = written.val
    /\ State = Shared(1)
    /\ WideIs(refGuards, 1)

\* C10: the fatal branches of the guards' drop are never reached: a RefGuard
\* release always observes Shared(n) with n >= 1 and a MutRefGuard release
\* always observes Exclusive.
C10_NoFatalRelease ==
    [][/\ last'.ret # "Fatal"
       /\ last'.op = "drop_ref" => (State.tag = "Shared" /\ State.n >= 1)
       /\ last'.op = "drop_mut" => State = Exclusive]_vars


(***************************************************************************)
(* Properties of Rc.                                                       *)
(***************************************************************************)
\* C2: the refcount stored in an allocation that has not been released equals
\* exactly the number of live Rc handles pointing at it.
C2_RefcountIsHandleCount ==
    \A a \in Addrs :
        heap[a].status = "live" => Cell_get(heap[a].refcount) = U64(handles[a])

C2_Witness ==
    \E a \in Addrs :
        /\ heap[a].status = "live"
        /\ handles[a] = 3
        /\ Cell_get(heap[a].refcount) = U64(3)
        /\ rcLast = [op |-> "clone", ret |-> "Ok", addr |-> a]

\* C3: the allocation is released exactly once, in the drop of the last
\* remaining handle and in no earlier drop; no handle exists on released
\* memory (no use after free, no double free), and an allocation whose
\* handles have all been dropped is released (no leak).
C3_Released ==
    \A a \in Addrs :
        /\ frees[a] <= 1
        /\ heap[a].status = "freed" <=> frees[a] = 1
        /\ handles[a] > 0 => heap[a].status = "live"
        /\ (heap[a].status # "unallocated" /\ handles[a] = 0) => heap[a].status = "freed"

C3_ReleasedOnceByLastDrop ==
    [][/\ C3_Released'
       /\ rcLast'.ret # "UseAfterFree"
       /\ \A a \in Addrs :
            (rcLast'.op = "drop" /\ rcLast'.addr = a) =>
                /\ handles'[a] = handles[a] - 1
                /\ (frees'[a] = frees[a] + 1) <=> (handles[a] = 1)
                /\ (frees'[a] = frees[a]) <=> (handles[a] > 1)
       /\ \A a \in Addrs :
            ~(rcLast'.op = "drop" /\ rcLast'.addr = a) => frees'[a] = frees[a]]_vars

C3_Witness ==
    \E a \in Addrs :
        /\ heap[a] = Freed
        /\ frees[a] = 1
        /\ handles[a] = 0
        /\ rcLast = [op |-> "drop", ret |-> "Ok", addr |-> a]

\* C11: every operation that produces a guard, the public constructors
\* RefGuard::new and MutRefGuard::new included, makes the matching state
\* transition (to Shared(n+1) or to Exclusive), so that every live guard is
\* accounted for in the state and no release reaches a fatal branch.
C11_GuardsAccounted ==
    [][/\ refGuards' = WideInc(refGuards) =>
            (State'.tag = "Shared" /\ State' # State)
       /\ mutGuards' = mutGuards + 1 =>
            (State = Unshared /\ State' = Exclusive)
       /\ ~WideIsZero(refGuards') => State'.tag = "Shared"
       /\ mutGuards' > 0 => State' = Exclusive
       /\ last'.ret # "Fatal"]_vars

\* C13: a denied borrow is recoverable: a denial leaves the RefCell and the
\* guards as they were, once every guard has been released after a denial
\* the state is Unshared, and the denied request, repeated then, succeeds.
C13_DenialRecoverable ==
    [][/\ last'.ret = "None" =>
            (refcell' = refcell /\ refGuards' = refGuards /\ mutGuards' = mutGuards)
       /\ (denied' # "none" /\ WideIsZero(refGuards') /\ mutGuards' = 0) =>
            State' = Unshared
       /\ (denied # "none" /\ NoGuard /\ last'.op = denied) =>
            last'.ret = "Some"]_vars

C13_Witness ==
    /\ denied = "borrow_mut"
    /\ last = [op |-> "borrow_mut", ret |-> "Some"]
    /\ State = Exclusive
    /\ mutGuards = 1
    /\ WideIsZero(refGuards)

\* C14: the state is Unshared, Exclusive or Shared(n) with n >= 1: Shared(0)
\* or Shared of a negative count is never stored, also at the maximum of the
\* i32 counter.
C14_SharedCountPositive == State.tag = "Shared" => State.n >= 1

\* C17: no borrow() or borrow_mut(), granted or denied, lowers the shared count
\* or changes an Exclusive state; every step from Shared(n) to a lower count or
\* to Unshared is the release of a RefGuard, every step from Exclusive to
\* Unshared the release of the MutRefGuard.
C17_OnlyReleaseLowers ==
    [][/\ last'.op \in {"borrow", "borrow_mut"} =>
            /\ State.tag = "Shared" => (State'.tag = "Shared" /\ State'.n >= State.n)
            /\ State = Exclusive => State' = Exclusive
       /\ (/\ State.tag = "Shared"
           /\ \/ State' = Unshared
              \/ State'.tag = "Shared" /\ State'.n < State.n)
            => last'.op = "drop_ref"
       /\ (State = Exclusive /\ State' # Exclusive) => last'.op = "drop_mut"]_vars

\* C19: while at least one RefGuard is live the value of the RefCell does not
\* change, and no exclusive guard is obtained.
C19_SharedValueStable ==
    [][(~WideIsZero(refGuards) /\ ~WideIsZero(refGuards')) =>
            /\ refcell'.value = refcell.value
            /\ mutGuards' = 0]_vars

(***************************************************************************)
(* Properties of Cell.                                                     *)
(***************************************************************************)
\* C12: get() returns the argument of the most recent set (or the value given
\* to Cell::new), get() does not change the stored value, and a value that
\* get() returned earlier is not changed by a later set.
C12_GetReturnsLastSet ==
    [][/\ cellLast'.op = "get" =>
            (copied' = Append(copied, cellExpect) /\ cell' = cell)
       /\ cellLast'.op = "set" =>
            (Cell_get(cell') = cellLast'.arg /\ copied' = copied)]_vars

C12_Witness ==
    /\ cellLast.op = "get"
    /\ Len(copied) = 2
    /\ copied[1] # copied[2]
    /\ copied[2] = cellExpect

\* C15: Rc::clone does not silently wrap the reference count: a clone never
\* leaves a stored count smaller than the count before it, also at the
\* maximum of the u64 counter.
C15_CloneNeverLowers ==
    [][\A a \in Addrs :
        (rcLast'.op = "clone" /\ rcLast'.addr = a /\ heap[a].status = "live") =>
            /\ heap'[a].status = "live"
            /\ ~U64Less(Cell_get(heap'[a].refcount), Cell_get(heap[a].refcount))]_vars

\* C18: a drop that observes a count c > 1 writes c - 1 and leaves the
\* allocation and the value intact; a clone writes c + 1 and leaves the value
\* unchanged; a dereference changes neither the count nor the value.
C18_RcFrame ==
    [][\A a \in Addrs :
        (rcLast'.addr = a /\ heap[a].status = "live") =>
            /\ (rcLast'.op = "drop" /\ Cell_get(heap[a].refcount) # U64(1)) =>
                    /\ heap'[a].status = "live"
                    /\ heap'[a].value = heap[a].value
                    /\ \E n \in 1..MaxHandles :
                          /\ Cell_get(heap[a].refcount) = U64(n + 1)
                          /\ Cell_get(heap'[a].refcount) = U64(n)
            /\ rcLast'.op = "clone" =>
                    /\ heap'[a].status = "live"
                    /\ heap'[a].value = heap[a].value
                    /\ \E n \in 1..MaxHandles :
                          /\ Cell_get(heap[a].refcount) = U64(n)
                          /\ Cell_get(heap'[a].refcount) = U64(n + 1)
            /\ rcLast'.op = "deref" =>
                    /\ heap' = heap
                    /\ rcLast'.val = heap[a].value
            /\ \A b \in Addrs \ {a} : heap'[b] = heap[b]]_vars

C18_Witness ==
    \E a \in Addrs :
        /\ rcLast = [op |-> "drop", ret |-> "Ok", addr |-> a]
        /\ heap[a].status = "live"
        /\ Cell_get(heap[a].refcount) = U64(2)
        /\ handles[a] = 2

\* C16: the refcount update is a plain read followed by a separate write: a
\* thread that writes c + 1 or c - 1 (or drops the Box) from a c that another
\* thread's write has made stale, in a state whose count matched the live
\* handles, leaves a count that differs from the number of live handles or a
\* dropped Box with a handle still live; the witness is the Box dropped while
\* a handle is live.
C16_StaleWriteLosesUpdate ==
    [][\A t \in Threads :
        (/\ tpc[t].op # "idle" /\ tpc'[t].op = "idle"
         /\ heap[Shared1].status = "live"
         /\ Cell_get(heap[Shared1].refcount) = U64(handles[Shared1])
         /\ tpc[t].c # Cell_get(heap[Shared1].refcount))
        => \/ heap'[Shared1] = Freed /\ handles'[Shared1] > 0
           \/ /\ heap'[Shared1].status = "live"
              /\ Cell_get(heap'[Shared1].refcount) # U64(handles'[Shared1])]_vars

C16_Witness ==
    /\ heap[Shared1] = Freed
    /\ frees[Shared1] = 1
    /\ handles[Shared1] > 0
    /\ \E t \in Threads : owned[t] > 0
    /\ \A t \in Threads : tpc[t].op = "idle"

\* C20: in Rc<RefCell<T>> the handles of one allocation share one borrow state
\* and one value: while a MutRefGuard obtained through one handle is live,
\* borrow() and borrow_mut() through any other handle of the allocation return
\* None; a read through any handle gives the value last stored in the
\* allocation, through whichever handle; and clone, or the drop of a handle
\* that is not the last, leaves the RefCell (state and value) as it was.
C20_HandlesShareRefCell ==
    [][/\ \A i, j \in Handles :
            (/\ i # j /\ hnd[i] # 0 /\ hnd[j] = hnd[i] /\ hMut[i] > 0
             /\ rcLast'.op \in {"borrow", "borrow_mut"}
             /\ rcLast'.h = j)
            => rcLast'.ret = "None"
       /\ (rcLast'.op = "deref") => (rcLast'.val = hWritten[rcLast'.addr].val)
       /\ (\/ rcLast'.op = "clone"
           \/ rcLast'.op = "drop" /\ handles[rcLast'.addr] > 1)
          => /\ heap'[rcLast'.addr].status = "live"
             /\ heap'[rcLast'.addr].value = heap[rcLast'.addr].value]_vars

C20_Witness ==
    \E i, j \in Handles :
        /\ i # j /\ hnd[i] # 0 /\ hnd[j] = hnd[i]
        /\ hMut[i] > 0
        /\ hWritten[hnd[i]].by = i
        /\ rcLast.op \in {"borrow", "borrow_mut"}
        /\ rcLast.h = j
        /\ rcLast.ret = "None"

====
